---- MODULE Spec2Model ----
(***************************************************************************)
(* File-Monitor: the digest engine (src/src/monitor/SHA_hashing.py) and    *)
(* the SQLite ledger (store_hash_in_sqlite, storeDB.check_stored_hashes).  *)
(*                                                                         *)
(* Python strings are sequences of code points, bytes are sequences of     *)
(* naturals below 256.  hashlib is modelled by a small rolling hash with   *)
(* a two-character lowercase hexadecimal digest; the extendable-output     *)
(* algorithms (shake_128) keep hashlib's rule that hexdigest() needs a     *)
(* length argument and raises TypeError without one.                       *)
(***************************************************************************)
EXTENDS Integers, Sequences, FiniteSets, Bags, TLC

VARIABLES
    files,       \* the regular files of the file system: a set of records
    unreadable,  \* the directories whose enumeration (scandir) fails
    pc,          \* position of the SHA_hashing process
    stack,       \* return labels of the calls in progress
    ret,         \* value returned by the last call that returned
    exc,         \* the uncaught exception, when pc = "crashed"
    path,        \* hash_data / __main__: path
    alg,         \* hash_data / __main__: algorithm
    hf,          \* locals of _hash_file
    handles,     \* file objects currently open
    hd,          \* locals of _hash_directory
    log,         \* records emitted through logging by the current call
    newCalls,    \* history: the names hashlib.new was invoked with in this call
    opened,      \* history: the paths open() was invoked on in this call
    db,          \* hashing_data.db as committed on disk
    conn,        \* store_hash_in_sqlite: conn
    txn,         \* rows written on conn and not yet committed
    st,          \* store_hash_in_sqlite: arguments and progress of the call
    hist,        \* history: the rows committed, in commit order
    rpc,         \* position of the storeDB process
    rconn,       \* check_stored_hashes: conn
    rd           \* check_stored_hashes: records, printed rows and outcome

fsVars     == <<files, unreadable>>
ctlVars    == <<pc, stack, ret, exc>>
engineVars == <<path, alg, hf, handles, hd, newCalls, opened>>
storeVars  == <<db, conn, txn, st, hist>>
readerVars == <<rpc, rconn, rd>>
vars == <<files, unreadable, pc, stack, ret, exc, path, alg, hf, handles, hd,
          log, newCalls, opened, db, conn, txn, st, hist, rpc, rconn, rd>>

----------------------------------------------------------------------------
(* Bounds of the model *)

MaxFiles == 2
MaxRecords == 2

----------------------------------------------------------------------------
(* Strings *)

S_Error == <<69, 114, 114, 111, 114>>                      \* "Error"
S_FailedToHash ==                                          \* "Error: Failed to hash file."
    <<69, 114, 114, 111, 114, 58, 32, 70, 97, 105, 108, 101, 100, 32, 116,
      111, 32, 104, 97, 115, 104, 32, 102, 105, 108, 101, 46>>
S_ThePath == <<69, 114, 114, 111, 114, 58, 32, 84, 104, 101, 32, 112, 97,
               116, 104, 32, 39>>                          \* "Error: The path '"
S_DoesNotExist == <<39, 32, 100, 111, 101, 115, 32, 110, 111, 116, 32, 101,
                    120, 105, 115, 116, 46>>               \* "' does not exist."
S_Unsupported ==                                 \* "Error: Unsupported hashing algorithm '"
    <<69, 114, 114, 111, 114, 58, 32, 85, 110, 115, 117, 112, 112, 111, 114,
      116, 101, 100, 32, 104, 97, 115, 104, 105, 110, 103, 32, 97, 108, 103,
      111, 114, 105, 116, 104, 109, 32, 39>>
S_QuoteDot == <<39, 46>>                                   \* "'."
S_NotFileOrDir ==                                          \* "' is not a file or directory."
    <<39, 32, 105, 115, 32, 110, 111, 116, 32, 97, 32, 102, 105, 108, 101,
      32, 111, 114, 32, 100, 105, 114, 101, 99, 116, 111, 114, 121, 46>>

Sha256   == <<115, 104, 97, 50, 53, 54>>                   \* "sha256"
Shake128 == <<115, 104, 97, 107, 101, 95, 49, 50, 56>>     \* "shake_128"
Md0      == <<109, 100, 48>>                               \* "md0"

\* str.startswith
StartsWith(s, p) == Len(s) >= Len(p) /\ SubSeq(s, 1, Len(p)) = p

\* the messages hash_data returns
NotFoundMsg(p)        == S_ThePath \o p \o S_DoesNotExist
UnsupportedAlgMsg(a)  == S_Unsupported \o a \o S_QuoteDot
UnsupportedKindMsg(p) == S_ThePath \o p \o S_NotFileOrDir

\* Python's order on str (and on lists): lexicographic by code point
RECURSIVE LexLess(_, _)
LexLess(s, t) ==
    IF s = <<>> THEN t # <<>>
    ELSE IF t = <<>> THEN FALSE
    ELSE IF Head(s) # Head(t) THEN Head(s) < Head(t)
    ELSE LexLess(Tail(s), Tail(t))

RECURSIVE InsertSorted(_, _)
InsertSorted(x, s) ==
    IF s = <<>> THEN <<x>>
    ELSE IF LexLess(x, Head(s)) THEN <<x>> \o s
    ELSE <<Head(s)>> \o InsertSorted(x, Tail(s))

\* sorted(list) on a list of strings
RECURSIVE Sorted(_)
Sorted(s) == IF s = <<>> THEN <<>> ELSE InsertSorted(Head(s), Sorted(Tail(s)))

\* "".join(list)
RECURSIVE Join(_)
Join(s) == IF s = <<>> THEN <<>> ELSE Head(s) \o Join(Tail(s))

\* str.encode('utf-8'): one byte per code point below 128, two below 2048
RECURSIVE EncodeUtf8(_)
EncodeUtf8(s) ==
    IF s = <<>> THEN <<>>
    ELSE LET c == Head(s) IN
         (IF c < 128 THEN <<c>>
          ELSE <<192 + (c \div 64), 128 + (c % 64)>>) \o EncodeUtf8(Tail(s))

----------------------------------------------------------------------------
(* hashlib *)

\* hashlib.algorithms_available
AlgorithmsAvailable == {Sha256, Shake128}

\* the extendable-output functions: hexdigest() takes a required length
IsXOF(a) == a = Shake128

\* hashlib.new(name): a fresh hash state
HashNew(a) == [name |-> a, acc |-> Len(a)]

\* hasher.update(bytes)
RECURSIVE HashUpdate(_, _)
HashUpdate(h, bytes) ==
    IF bytes = <<>> THEN h
    ELSE HashUpdate([h EXCEPT !.acc = (h.acc * 31 + Head(bytes) + Len(h.name)) % 256],
                    Tail(bytes))

HexChar(n) == IF n < 10 THEN 48 + n ELSE 87 + n

\* hasher.hexdigest() of a fixed-length algorithm
HexDigest(h) == <<HexChar(h.acc \div 16), HexChar(h.acc % 16)>>

----------------------------------------------------------------------------
(* The file system *)

Top  == <<100>>                        \* "d"
DirA == <<100, 47, 97>>                \* "d/a"
DirC == <<100, 47, 97, 47, 99>>        \* "d/a/c"
DirB == <<100, 47, 98>>                \* "d/b"
Dev  == <<100, 101, 118>>              \* "dev": exists, neither file nor directory
Nope == <<110, 111, 112, 101>>         \* "nope": does not exist

Dirs == {Top, DirA, DirC, DirB}
UnreadableDirs == {Top, DirA}        \* the directories that may refuse scandir
Names == {<<120>>, <<121>>}            \* "x", "y"
Contents == {<<>>, <<104, 105>>}       \* b"", b"hi"
FailKinds == {"none", "open", "read"}  \* where reading the file raises OSError

\* os.path.join(root, filename)
PathJoin(root, name) == root \o <<47>> \o name

FileRecs == [dir : Dirs, name : Names, content : Contents, fail : FailKinds]
FilePath(f) == PathJoin(f.dir, f.name)

RECURSIVE FileSets(_)
FileSets(k) ==
    IF k = 0 THEN {{}}
    ELSE LET prev == FileSets(k - 1) IN
         prev \cup {s \cup {f} : s \in prev,
                    f \in FileRecs}

UniquePaths(s) == \A f, g \in s : FilePath(f) = FilePath(g) => f = g

\* os.path.isfile, os.path.isdir, os.path.exists
IsFile(p) == \E f \in files : FilePath(f) = p
IsDir(p)  == p \in Dirs
Exists(p) == IsFile(p) \/ IsDir(p) \/ p = Dev

FileAt(p) == CHOOSE f \in files : FilePath(f) = p

\* what scandir(d) lists
SubDirs(d)    == {e \in Dirs : Len(e) = Len(d) + 2 /\ SubSeq(e, 1, Len(d)) = d}
FileNames(d)  == {f.name : f \in {g \in files : g.dir = d}}

\* the orders in which a set can be listed
Listings(S) == {s \in [1..Cardinality(S) -> S] :
                  \A i, j \in 1..Cardinality(S) : s[i] = s[j] => i = j}

----------------------------------------------------------------------------
(* Calls, returns and uncaught exceptions of the SHA_hashing process *)

NoHasher == [name |-> <<>>, acc |-> 0]
NoHf == [filepath |-> <<>>, algorithm |-> <<>>, hasher |-> NoHasher, pos |-> 0]
NoHd == [hasher |-> NoHasher, file_hashes |-> <<>>, todo |-> <<>>,
         root |-> <<>>, pending |-> <<>>, filepath |-> <<>>]

\* a return statement: control goes back to the caller
Return(v) == /\ pc' = Head(stack)
             /\ stack' = Tail(stack)
             /\ ret' = v
             /\ exc' = exc

\* an exception no handler of the program catches: the process ends
Raise(e) == /\ pc' = "crashed"
            /\ exc' = e
            /\ UNCHANGED <<stack, ret>>

Goto(l) == pc' = l /\ UNCHANGED <<stack, ret, exc>>

LogRec(level, what, p) == [level |-> level, what |-> what, path |-> p]

\* f.read(8192)
ChunkSize == 8192
Min(a, b) == IF a < b THEN a ELSE b
ReadChunk(content, pos) == SubSeq(content, pos + 1, Min(pos + ChunkSize, Len(content)))

\* without the with statement: f.close() at the end, skipped by an exception
WithExit_LeakOnError(hs, fp, byException) == IF byException THEN hs ELSE hs \ {fp}

\* leaving the block of "with open(...) as f" closes f, by return or by exception
WithExit(hs, fp, byException) == hs \ {fp}

----------------------------------------------------------------------------
(* _hash_file(filepath, algorithm) *)

\* hasher = hashlib.new(algorithm)
HfNew ==
    /\ pc = "hf_new"
    /\ newCalls' = newCalls \cup {hf.algorithm}
    /\ IF hf.algorithm \in AlgorithmsAvailable
       THEN /\ hf' = [hf EXCEPT !.hasher = HashNew(hf.algorithm)]
            /\ Goto("hf_open")
       ELSE /\ Raise("ValueError")
            /\ UNCHANGED hf
    /\ UNCHANGED <<fsVars, path, alg, handles, hd, log, opened, storeVars, readerVars>>

\* open(filepath, 'rb'); an OSError is logged and the error string returned
HfOpen ==
    /\ pc = "hf_open"
    /\ opened' = opened \cup {hf.filepath}
    /\ IF IsFile(hf.filepath) /\ FileAt(hf.filepath).fail # "open"
       THEN /\ handles' = handles \cup {hf.filepath}
            /\ Goto("hf_read")
            /\ UNCHANGED <<hf, log>>
       ELSE /\ log' = Append(log, LogRec("error", "reading file", hf.filepath))
            /\ Return(S_FailedToHash)
            /\ hf' = NoHf
            /\ UNCHANGED handles
    /\ UNCHANGED <<fsVars, path, alg, hd, newCalls, storeVars, readerVars>>

\* one turn of "while chunk := f.read(8192)": update, or leave the with block
HfRead ==
    /\ pc = "hf_read"
    /\ LET f == FileAt(hf.filepath)
           chunk == ReadChunk(f.content, hf.pos)
       IN IF f.fail = "read"
          THEN /\ handles' = WithExit(handles, hf.filepath, TRUE)
               /\ log' = Append(log, LogRec("error", "reading file", hf.filepath))
               /\ Return(S_FailedToHash)
               /\ hf' = NoHf
          ELSE IF chunk # <<>>
          THEN /\ hf' = [hf EXCEPT !.hasher = HashUpdate(hf.hasher, chunk),
                                   !.pos = hf.pos + Len(chunk)]
               /\ Goto("hf_read")
               /\ UNCHANGED <<handles, log>>
          ELSE /\ handles' = WithExit(handles, hf.filepath, FALSE)
               /\ Goto("hf_digest")
               /\ UNCHANGED <<hf, log>>
    /\ UNCHANGED <<fsVars, path, alg, hd, newCalls, opened, storeVars, readerVars>>

\* return hasher.hexdigest()
HfDigest ==
    /\ pc = "hf_digest"
    /\ IF IsXOF(hf.algorithm)
       THEN /\ Raise("TypeError")
            /\ UNCHANGED hf
       ELSE /\ Return(HexDigest(hf.hasher))
            /\ hf' = NoHf
    /\ UNCHANGED <<fsVars, path, alg, handles, hd, log, newCalls, opened,
                   storeVars, readerVars>>

----------------------------------------------------------------------------
(* _hash_directory(folder_path, algorithm), called with hash_data's path, algorithm *)

\* hasher = hashlib.new(algorithm); file_hashes = []; os.walk(folder_path) starts
HdNew ==
    /\ pc = "hd_new"
    /\ newCalls' = newCalls \cup {alg}
    /\ IF alg \in AlgorithmsAvailable
       THEN /\ hd' = [NoHd EXCEPT !.hasher = HashNew(alg), !.todo = <<path>>]
            /\ Goto("hd_walk")
       ELSE /\ Raise("ValueError")
            /\ UNCHANGED hd
    /\ UNCHANGED <<fsVars, path, alg, hf, handles, log, opened, storeVars, readerVars>>

\* sorted(files)
SortedFiles(listing) == Sorted(listing)

\* os.walk visits the next directory: scandir lists it in the host's order,
\* or fails, and then onerror logs and the subtree is left out
HdWalkDir ==
    /\ pc = "hd_walk"
    /\ hd.pending = <<>>
    /\ hd.todo # <<>>
    /\ LET d == Head(hd.todo) IN
       IF d \in unreadable
       THEN /\ log' = Append(log, LogRec("error", "accessing", d))
            /\ hd' = [hd EXCEPT !.todo = Tail(hd.todo)]
       ELSE /\ \E fl \in Listings(FileNames(d)), dl \in Listings(SubDirs(d)) :
                 hd' = [hd EXCEPT !.root = d,
                                  !.pending = SortedFiles(fl),
                                  !.todo = dl \o Tail(hd.todo)]
            /\ UNCHANGED log
    /\ Goto("hd_walk")
    /\ UNCHANGED <<fsVars, path, alg, hf, handles, newCalls, opened, storeVars, readerVars>>

\* filepath = os.path.join(root, filename); file_hash = _hash_file(filepath, algorithm)
HdWalkFile ==
    /\ pc = "hd_walk"
    /\ hd.pending # <<>>
    /\ LET fp == PathJoin(hd.root, Head(hd.pending)) IN
       /\ hd' = [hd EXCEPT !.pending = Tail(hd.pending), !.filepath = fp]
       /\ hf' = [NoHf EXCEPT !.filepath = fp, !.algorithm = alg]
    /\ pc' = "hf_new"
    /\ stack' = <<"hd_after">> \o stack
    /\ UNCHANGED <<ret, exc>>
    /\ UNCHANGED <<fsVars, path, alg, handles, log, newCalls, opened, storeVars, readerVars>>

\* if not file_hash.startswith("Error"): append; else: warn and skip
HdAfter ==
    /\ pc = "hd_after"
    /\ IF ~StartsWith(ret, S_Error)
       THEN /\ hd' = [hd EXCEPT !.file_hashes = Append(hd.file_hashes, ret)]
            /\ UNCHANGED log
       ELSE /\ log' = Append(log, LogRec("warning", "skipping", hd.filepath))
            /\ UNCHANGED hd
    /\ Goto("hd_walk")
    /\ UNCHANGED <<fsVars, path, alg, hf, handles, newCalls, opened, storeVars, readerVars>>

\* without the sort: the digests are joined in the order of the walk
SortedHashes_WalkOrder(file_hashes) == file_hashes

\* sorted(file_hashes)
SortedHashes(file_hashes) == Sorted(file_hashes)

\* combined_string = "".join(sorted(file_hashes)); hasher.update(...encode('utf-8'))
CombinedHasher(hasher, file_hashes) ==
    HashUpdate(hasher, EncodeUtf8(Join(SortedHashes(file_hashes))))

\* the walk is over: combine and return hasher.hexdigest()
HdCombine ==
    /\ pc = "hd_walk"
    /\ hd.pending = <<>>
    /\ hd.todo = <<>>
    /\ IF IsXOF(alg)
       THEN /\ Raise("TypeError")
            /\ hd' = [hd EXCEPT !.hasher = CombinedHasher(hd.hasher, hd.file_hashes)]
       ELSE /\ Return(HexDigest(CombinedHasher(hd.hasher, hd.file_hashes)))
            /\ hd' = NoHd
    /\ UNCHANGED <<fsVars, path, alg, hf, handles, log, newCalls, opened,
                   storeVars, readerVars>>

----------------------------------------------------------------------------
(* hash_data(path, algorithm) *)

\* without the validation: any algorithm name passes
AlgorithmCheck_Skipped(a) == TRUE

\* algorithm in hashlib.algorithms_available
AlgorithmCheck(a) == a \in AlgorithmsAvailable

HashData ==
    /\ pc = "hash_data"
    /\ IF ~Exists(path)
       THEN /\ Return(NotFoundMsg(path))
            /\ UNCHANGED <<hf, hd>>
       ELSE IF ~AlgorithmCheck(alg)
       THEN /\ Return(UnsupportedAlgMsg(alg))
            /\ UNCHANGED <<hf, hd>>
       ELSE IF IsFile(path)
       THEN /\ hf' = [NoHf EXCEPT !.filepath = path, !.algorithm = alg]
            /\ Goto("hf_new")
            /\ UNCHANGED hd
       ELSE IF IsDir(path)
       THEN /\ Goto("hd_new")
            /\ UNCHANGED <<hf, hd>>
       ELSE /\ Return(UnsupportedKindMsg(path))
            /\ UNCHANGED <<hf, hd>>
    /\ UNCHANGED <<fsVars, path, alg, handles, log, newCalls, opened,
                   storeVars, readerVars>>

----------------------------------------------------------------------------
(* The SQLite file hashing_data.db: the table file_hashes, keyed by rowid.  *)
(* The column created_at, filled by SQLite and only printed, is left out.  *)

NoDb == [table |-> FALSE, rows |-> {}, seq |-> 0]

RECURSIVE MaxOf(_)
MaxOf(S) == IF S = {} THEN 0
            ELSE LET x == CHOOSE y \in S : TRUE
                     m == MaxOf(S \ {x})
                 IN IF x > m THEN x ELSE m

\* id INTEGER PRIMARY KEY AUTOINCREMENT: above every rowid the table ever held
NextRowId(d) == MaxOf({r.id : r \in d.rows} \cup {d.seq}) + 1

\* CREATE TABLE IF NOT EXISTS file_hashes: the sqlite3 module opens no
\* transaction for DDL, so the statement is on disk when execute returns
CreateTable(d) == [d EXCEPT !.table = TRUE]

\* on a connection in autocommit mode the row is on disk at once
InsertEffect_Autocommit(d, t, row) ==
    [db |-> [d EXCEPT !.rows = d.rows \cup {row}], txn |-> t]

\* INSERT INTO file_hashes: the sqlite3 module begins a transaction first, so
\* the row is pending on the connection until commit
InsertEffect(d, t, row) == [db |-> d, txn |-> Append(t, row)]

\* with INSERT OR REPLACE keyed by path: the earlier record of the path goes
CommitRows_ReplaceByPath(d, t) ==
    [d EXCEPT !.rows = {r \in d.rows : \A i \in 1..Len(t) : t[i].path # r.path}
                         \cup {t[i] : i \in 1..Len(t)},
              !.seq = MaxOf({t[i].id : i \in 1..Len(t)} \cup {d.seq})]

\* conn.commit(): the pending rows become visible to every connection
CommitRows(d, t) ==
    [d EXCEPT !.rows = d.rows \cup {t[i] : i \in 1..Len(t)},
              !.seq = MaxOf({t[i].id : i \in 1..Len(t)} \cup {d.seq})]

\* SELECT ... FROM file_hashes, fetchall(): a scan of the table in rowid order
RECURSIVE FetchAll(_)
FetchAll(rows) ==
    IF rows = {} THEN <<>>
    ELSE LET r == CHOOSE x \in rows : \A y \in rows : x.id <= y.id
         IN <<r>> \o FetchAll(rows \ {r})

----------------------------------------------------------------------------
(* store_hash_in_sqlite(path, hash_value, algorithm) *)

NoSt == [path |-> <<>>, hash_value |-> <<>>, algorithm |-> <<>>,
         failed |-> FALSE, at |-> "none", trace |-> <<>>, result |-> "none",
         before |-> {}]

\* the call: conn = None
StoreEntry(p, h, a) ==
    /\ st' = [NoSt EXCEPT !.path = p, !.hash_value = h, !.algorithm = a,
                          !.before = db.rows]
    /\ conn' = "None"
    /\ txn' = <<>>

\* a statement raises sqlite3.Error: control goes to the except clause
StFail ==
    /\ st' = [st EXCEPT !.failed = TRUE, !.at = pc]
    /\ Goto("st_except")

\* conn = sqlite3.connect('hashing_data.db')
StConnect ==
    /\ pc = "st_connect"
    /\ \/ /\ conn' = "open"
          /\ st' = [st EXCEPT !.trace = Append(st.trace, "connect")]
          /\ Goto("st_create")
       \/ /\ StFail
          /\ UNCHANGED conn
    /\ UNCHANGED <<fsVars, engineVars, log, db, txn, hist, readerVars>>

\* cursor.execute(CREATE TABLE IF NOT EXISTS ...); conn.commit()
StCreate ==
    /\ pc = "st_create"
    /\ \/ /\ db' = CreateTable(db)
          /\ Goto("st_insert")
          /\ UNCHANGED st
       \/ /\ StFail
          /\ UNCHANGED db
    /\ UNCHANGED <<fsVars, engineVars, log, conn, txn, hist, readerVars>>

\* cursor.execute(INSERT ..., (path, hash_value, algorithm))
StInsert ==
    /\ pc = "st_insert"
    /\ \/ LET row == [id |-> NextRowId(db), path |-> st.path,
                      hash_value |-> st.hash_value, algorithm |-> st.algorithm]
              eff == InsertEffect(db, txn, row)
          IN /\ db' = eff.db
             /\ txn' = eff.txn
             /\ Goto("st_commit")
             /\ UNCHANGED st
       \/ /\ StFail
          /\ UNCHANGED <<db, txn>>
    /\ UNCHANGED <<fsVars, engineVars, log, conn, hist, readerVars>>

\* conn.commit(); logging.info(...)
StCommit ==
    /\ pc = "st_commit"
    /\ \/ /\ db' = CommitRows(db, txn)
          /\ hist' = hist \o txn
          /\ txn' = <<>>
          /\ log' = Append(log, LogRec("info", "stored", st.path))
          /\ Goto("st_finally")
          /\ UNCHANGED st
       \/ /\ StFail
          /\ UNCHANGED <<db, txn, hist, log>>
    /\ UNCHANGED <<fsVars, engineVars, conn, readerVars>>

\* except sqlite3.Error: logging.error(...); if conn: conn.rollback()
StExcept ==
    /\ pc = "st_except"
    /\ log' = Append(log, LogRec("error", "store", st.path))
    /\ IF conn = "open"
       THEN /\ txn' = <<>>
            /\ st' = [st EXCEPT !.trace = Append(st.trace, "rollback")]
       ELSE UNCHANGED <<txn, st>>
    /\ Goto("st_finally")
    /\ UNCHANGED <<fsVars, engineVars, db, conn, hist, readerVars>>

\* finally: if conn: conn.close()
FinallyClose(c, failed) == IF c = "open" THEN "closed" ELSE c

\* the finally clause, and the function returns None
StFinally ==
    /\ pc = "st_finally"
    /\ conn' = FinallyClose(conn, st.failed)
    /\ IF conn' = "closed" /\ conn = "open"
       THEN /\ txn' = <<>>
            /\ st' = [st EXCEPT !.trace = Append(st.trace, "close"), !.result = "None"]
       ELSE /\ st' = [st EXCEPT !.result = "None"]
            /\ UNCHANGED txn
    /\ pc' = Head(stack)
    /\ stack' = Tail(stack)
    /\ UNCHANGED <<ret, exc>>
    /\ UNCHANGED <<fsVars, engineVars, log, db, hist, readerVars>>

----------------------------------------------------------------------------
(* check_stored_hashes() of storeDB.py, run as a process of its own *)

NoRd == [records |-> <<>>, printed |-> <<>>, outcome |-> "none", fault |-> FALSE,
         seenTable |-> FALSE, seenRows |-> {}, seenHist |-> <<>>, logged |-> <<>>]

\* the call: conn = None
RCall ==
    /\ rpc \in {"r_idle", "r_returned"}
    /\ rpc' = "r_connect"
    /\ rconn' = "None"
    /\ rd' = NoRd
    /\ UNCHANGED <<fsVars, ctlVars, engineVars, log, storeVars>>

\* conn = sqlite3.connect('hashing_data.db')
RConnect ==
    /\ rpc = "r_connect"
    /\ \/ /\ rconn' = "open"
          /\ rpc' = "r_select"
          /\ UNCHANGED rd
       \/ /\ rd' = [rd EXCEPT !.fault = TRUE]
          /\ rpc' = "r_except"
          /\ UNCHANGED rconn
    /\ UNCHANGED <<fsVars, ctlVars, engineVars, log, storeVars>>

\* cursor.execute("SELECT ... FROM file_hashes"); records = cursor.fetchall();
\* then "No records found" and return, or the rows are printed
RSelect ==
    /\ rpc = "r_select"
    /\ LET seen == [rd EXCEPT !.seenTable = db.table, !.seenRows = db.rows,
                              !.seenHist = hist]
       IN \/ /\ db.table
             /\ LET records == FetchAll(db.rows) IN
                IF records = <<>>
                THEN rd' = [seen EXCEPT !.outcome = "no-records",
                                        !.logged = Append(rd.logged, "info")]
                ELSE rd' = [seen EXCEPT !.records = records, !.printed = records,
                                        !.outcome = "printed"]
             /\ rpc' = "r_finally"
          \/ /\ ~db.table       \* sqlite3.OperationalError: no such table
             /\ rd' = seen
             /\ rpc' = "r_except"
          \/ /\ rd' = [seen EXCEPT !.fault = TRUE]
             /\ rpc' = "r_except"
    /\ UNCHANGED <<fsVars, ctlVars, engineVars, log, storeVars, rconn>>

\* except sqlite3.Error: logging.error(...)
RExcept ==
    /\ rpc = "r_except"
    /\ rd' = [rd EXCEPT !.outcome = "store-error", !.logged = Append(rd.logged, "error")]
    /\ rpc' = "r_finally"
    /\ UNCHANGED <<fsVars, ctlVars, engineVars, log, storeVars, rconn>>

\* finally: if conn: conn.close()
RFinally ==
    /\ rpc = "r_finally"
    /\ rconn' = FinallyClose(rconn, rd.outcome = "store-error")
    /\ rpc' = "r_returned"
    /\ UNCHANGED <<fsVars, ctlVars, engineVars, log, storeVars, rd>>

----------------------------------------------------------------------------
(* __main__ of SHA_hashing.py *)

InputPaths == {Top, Dev, Nope} \cup {PathJoin(Top, n) : n \in Names}
InputAlgorithms == {<<>>, Sha256, Shake128, Md0}

\* if not algorithm: algorithm = "sha256"
DefaultAlgorithm(a) == IF a = <<>> THEN Sha256 ELSE a

\* path = input(...); algorithm = input(...); hash_value = hash_data(path, algorithm)
MainInput ==
    /\ pc = "main"
    /\ \E p \in InputPaths, a \in InputAlgorithms :
          /\ path' = p
          /\ alg' = DefaultAlgorithm(a)
    /\ pc' = "hash_data"
    /\ stack' = <<"main_check">>
    /\ UNCHANGED <<ret, exc>>
    /\ UNCHANGED <<fsVars, hf, handles, hd, log, newCalls, opened, storeVars, readerVars>>

\* without the test: whatever hash_data returned is stored
MainStores_Always(hash_value) == TRUE

\* if not hash_value.startswith("Error")
MainStores(hash_value) == ~StartsWith(hash_value, S_Error)

\* store_hash_in_sqlite(path, hash_value, algorithm), or "Not storing"
MainCheck ==
    /\ pc = "main_check"
    /\ IF MainStores(ret)
       THEN /\ StoreEntry(path, ret, alg)
            /\ pc' = "st_connect"
            /\ stack' = <<"exit">>
       ELSE /\ pc' = "exit"
            /\ UNCHANGED <<stack, conn, txn, st>>
    /\ UNCHANGED <<ret, exc>>
    /\ UNCHANGED <<fsVars, engineVars, log, db, hist, readerVars>>

----------------------------------------------------------------------------
(* The functions called one after another by an importing program *)

CallPaths == {PathJoin(Top, n) : n \in Names} \cup {Nope}
CallDigests == {<<48, 54>>, <<97, 102>>}          \* "06", "af"

\* _hash_file(filepath, algorithm)
CallHashFile ==
    /\ pc = "idle"
    /\ \E fp \in CallPaths, a \in AlgorithmsAvailable :
          hf' = [NoHf EXCEPT !.filepath = fp, !.algorithm = a]
    /\ pc' = "hf_new"
    /\ stack' = <<"idle">>
    /\ ret' = <<>>
    /\ log' = <<>> /\ newCalls' = {} /\ opened' = {}
    /\ UNCHANGED <<exc, fsVars, path, alg, handles, hd, storeVars, readerVars>>

\* store_hash_in_sqlite(path, hash_value, algorithm)
CallStore ==
    /\ pc = "idle"
    /\ Cardinality(db.rows) < MaxRecords
    /\ \E p \in {Top, PathJoin(Top, <<120>>)}, h \in CallDigests :
          StoreEntry(p, h, Sha256)
    /\ pc' = "st_connect"
    /\ stack' = <<"idle">>
    /\ ret' = <<>>
    /\ log' = <<>> /\ newCalls' = {} /\ opened' = {}
    /\ UNCHANGED <<exc, fsVars, path, alg, hf, handles, hd, db, hist, readerVars>>

----------------------------------------------------------------------------
(* Specifications *)

InitProcess ==
    /\ stack = <<>>
    /\ ret = <<>>
    /\ exc = "none"
    /\ path = <<>>
    /\ alg = <<>>
    /\ hf = NoHf
    /\ handles = {}
    /\ hd = NoHd
    /\ log = <<>>
    /\ newCalls = {}
    /\ opened = {}
    /\ db = NoDb
    /\ conn = "None"
    /\ txn = <<>>
    /\ st = NoSt
    /\ hist = <<>>
    /\ rpc = "r_idle"
    /\ rconn = "None"
    /\ rd = NoRd

\* the script run once on any file system within the bounds
Init ==
    /\ files \in {s \in FileSets(MaxFiles) : UniquePaths(s)}
    /\ unreadable \in SUBSET UnreadableDirs
    /\ pc = "main"
    /\ InitProcess

Next ==
    \/ MainInput
    \/ HashData
    \/ HfNew \/ HfOpen \/ HfRead \/ HfDigest
    \/ HdNew \/ HdWalkDir \/ HdWalkFile \/ HdAfter \/ HdCombine
    \/ MainCheck
    \/ StConnect \/ StCreate \/ StInsert \/ StCommit \/ StExcept \/ StFinally

Spec == Init /\ [][Next]_vars

\* one readable file, one that fails at open, one that fails at read
CallsFiles ==
    {[dir |-> Top, name |-> <<120>>, content |-> <<104, 105>>, fail |-> "none"],
     [dir |-> Top, name |-> <<121>>, content |-> <<104, 105>>, fail |-> "read"]}

InitCalls ==
    /\ files = CallsFiles
    /\ unreadable = {}
    /\ pc = "idle"
    /\ InitProcess

NextCalls ==
    \/ CallHashFile
    \/ HfNew \/ HfOpen \/ HfRead \/ HfDigest
    \/ CallStore
    \/ StConnect \/ StCreate \/ StInsert \/ StCommit \/ StExcept \/ StFinally
    \/ RCall \/ RConnect \/ RSelect \/ RExcept \/ RFinally

SpecCalls == InitCalls /\ [][NextCalls]_vars

----------------------------------------------------------------------------
(* What the claims speak about *)

IsPrefix(p, q) == Len(p) <= Len(q) /\ SubSeq(q, 1, Len(p)) = p

\* the directories under path that the walk can enumerate
Walked(d) == /\ IsPrefix(path, d)
             /\ \A e \in Dirs : IsPrefix(path, e) /\ IsPrefix(e, d) => e \notin unreadable

WalkedFiles == {f \in files : Walked(f.dir)}
GoodFiles   == {f \in WalkedFiles : f.fail = "none"}
FailedFiles == {f \in WalkedFiles : f.fail # "none"}

\* the digest of a byte string under a fixed-length algorithm
DigestOf(a, bytes) == HexDigest(HashUpdate(HashNew(a), bytes))

RECURSIVE DigestBag(_, _)
DigestBag(S, a) ==
    IF S = {} THEN EmptyBag
    ELSE LET f == CHOOSE g \in S : TRUE
         IN SetToBag({DigestOf(a, f.content)}) (+) DigestBag(S \ {f}, a)

NonDecreasing(s) == \A i \in 1..(Len(s) - 1) : ~LexLess(s[i + 1], s[i])
Occurrences(s, d) == Cardinality({i \in 1..Len(s) : s[i] = d})

\* the one non-decreasing sequence that holds the elements of bag B
SortedOfBag(B) ==
    CHOOSE s \in [1..BagCardinality(B) -> BagToSet(B)] :
        /\ NonDecreasing(s)
        /\ \A d \in BagToSet(B) : Occurrences(s, d) = CopiesIn(d, B)

\* hash(concatenation of the sorted digests of bag B)
DigestOfBag(a, B) == DigestOf(a, EncodeUtf8(Join(SortedOfBag(B))))

DirRun  == IsDir(path) /\ alg \in AlgorithmsAvailable
HashDataReturned == pc = "main_check"

Warnings(p) == Cardinality({i \in 1..Len(log) :
                              log[i].level = "warning" /\ log[i].path = p})

\* C1: whenever _hash_directory returns a digest, that digest is the hash of
\* the concatenation of the sorted digests of the files that hashed
\* successfully: a function of the multiset of those digests alone, whatever
\* the files' names, their directories and the order of enumeration.
C1_DirectoryDigestOfMultiset ==
    (HashDataReturned /\ DirRun) => ret = DigestOfBag(alg, DigestBag(GoodFiles, alg))

\* two files of different content, found in different directories, were
\* hashed and combined
C1_Witness ==
    /\ HashDataReturned /\ DirRun
    /\ \E f, g \in GoodFiles : f.dir = DirC /\ g.dir = Top /\ f.content # g.content
                                /\ f.name = g.name
    /\ ret = DigestOfBag(alg, DigestBag(GoodFiles, alg))

\* C2: directory hashing in which a file fails or a directory cannot be
\* enumerated never aborts: it returns a digest, that of the tree without the
\* failed files and the untraversable subtrees, with one warning per failed file.
C2_FailuresNeverAbort ==
    (DirRun /\ (FailedFiles # {} \/ \E d \in unreadable : IsPrefix(path, d))) =>
        /\ pc # "crashed"
        /\ HashDataReturned =>
              /\ ~StartsWith(ret, S_Error)
              /\ ret = DigestOfBag(alg, DigestBag(GoodFiles, alg))
              /\ \A f \in FailedFiles : Warnings(FilePath(f)) = 1

\* C3 as stated: an unsupported algorithm name yields the
\* UnsupportedAlgorithm failure.
C3_UnsupportedAlgorithmFailure ==
    (HashDataReturned /\ alg \notin AlgorithmsAvailable) => ret = UnsupportedAlgMsg(alg)

\* C3, amended: with an unsupported algorithm name hash_data computes nothing
\* (hashlib.new is never invoked, no file is opened, no directory is walked)
\* and returns a failure: UnsupportedAlgorithm when the path exists, NotFound
\* when it does not.
C3_UnsupportedAlgorithmComputesNothing ==
    (pc # "main" /\ alg \notin AlgorithmsAvailable) =>
        /\ newCalls = {} /\ opened = {} /\ handles = {}
        /\ hf = NoHf /\ hd = NoHd /\ log = <<>>
        /\ pc \in {"hash_data", "main_check", "exit"}
        /\ pc # "hash_data" =>
              ret = IF Exists(path) THEN UnsupportedAlgMsg(alg) ELSE NotFoundMsg(path)

C3_Witness ==
    /\ pc = "exit" /\ alg = Md0 /\ IsFile(path)
    /\ ret = UnsupportedAlgMsg(Md0)
    /\ newCalls = {} /\ opened = {}

\* the result of _hash_file on a file of the file system
FileResult(p, a) ==
    IF FileAt(p).fail # "none" THEN S_FailedToHash ELSE DigestOf(a, FileAt(p).content)

TerminalFailures == {NotFoundMsg(path), UnsupportedAlgMsg(alg), UnsupportedKindMsg(path)}

\* C4: hash_data ends in exactly one outcome: NotFound for a path that does
\* not exist; otherwise, for a supported algorithm, what _hash_file gives for
\* a regular file, what _hash_directory gives for a directory, and
\* UnsupportedPathKind for anything else; and __main__ never stores one of
\* the three failures as a digest.
C4_HashDataOutcome ==
    /\ HashDataReturned =>
          IF ~Exists(path) THEN ret = NotFoundMsg(path)
          ELSE alg \in AlgorithmsAvailable =>
                 IF IsFile(path) THEN ret = FileResult(path, alg)
                 ELSE IF IsDir(path)
                      THEN ret = DigestOfBag(alg, DigestBag(GoodFiles, alg))
                      ELSE ret = UnsupportedKindMsg(path)
    /\ pc = "crashed" => (IsFile(path) \/ IsDir(path)) /\ IsXOF(alg)
    /\ pc \in {"st_connect", "st_create", "st_insert", "st_commit", "st_except",
               "st_finally"} => st.hash_value \notin TerminalFailures
    /\ \A r \in db.rows : r.hash_value \notin TerminalFailures

C4_Witness ==
    /\ pc = "exit" /\ path = Dev /\ alg = Sha256
    /\ ret = UnsupportedKindMsg(Dev)
    /\ st = NoSt /\ db = NoDb

\* C9: a directory without files and a directory whose files all fail both
\* yield the hash of the empty string, a result hash_data treats as success.
C9_EmptyAndAllFailedYieldEmptyHash ==
    (DirRun /\ \A f \in files : f.fail # "none") =>
        /\ pc # "crashed"
        /\ HashDataReturned => ret = DigestOf(alg, <<>>) /\ MainStores(ret)

----------------------------------------------------------------------------
(* The ledger *)

StoreReturned == pc = "idle" /\ st.result = "None"
ErrorLogged == \E i \in 1..Len(log) : log[i].level = "error" /\ log[i].what = "store"

\* C5: a store failure inside store_hash_in_sqlite is logged and surfaces to
\* the caller: what the caller gets back differs from what a successful call
\* gives it (a plain return of None, no exception).
C5_StoreFailureSurfaces ==
    (StoreReturned /\ st.failed) =>
        /\ ErrorLogged
        /\ <<st.result, exc>> # <<"None", "none">>

\* C6: a store failure at connect, schema creation, insert or commit leaves
\* the records of the ledger as they were before the call, shows no row of the
\* failed call to a reader, and on an obtained connection the rollback comes
\* before the close.
C6_FailureLeavesLedgerUnchanged ==
    /\ st.failed =>
          /\ db.rows = st.before
          /\ pc # "st_except" => txn = <<>>
          /\ st.result = "None" =>
                \/ st.at = "st_connect" /\ st.trace = <<>> /\ conn = "None"
                \/ /\ st.at # "st_connect"
                   /\ st.trace = <<"connect", "rollback", "close">>
    /\ rpc \in {"r_finally", "r_returned"} /\ rd.outcome # "store-error" =>
          /\ rd.seenRows \subseteq db.rows
          /\ st.failed => rd.seenRows \subseteq st.before

C6_Witness ==
    /\ StoreReturned /\ st.failed /\ st.at = "st_commit"
    /\ st.before # {} /\ db.rows = st.before
    /\ st.trace = <<"connect", "rollback", "close">>
    /\ rpc = "r_returned" /\ rd.outcome = "printed" /\ rd.seenRows = st.before

RowsOf(s) == {s[i] : i \in 1..Len(s)}

LedgerInv ==
    /\ RowsOf(hist) = db.rows
    /\ \A i, j \in 1..Len(hist) : i < j => hist[i].id < hist[j].id
    /\ (StoreReturned /\ ~st.failed) =>
          \E r \in db.rows :
             /\ r \notin st.before
             /\ db.rows = st.before \cup {r}
             /\ r.path = st.path /\ r.hash_value = st.hash_value
             /\ r.algorithm = st.algorithm
             /\ \A q \in st.before : q.id < r.id
    /\ rd.outcome = "printed" =>
          /\ rd.printed = rd.seenHist
          /\ RowsOf(rd.printed) = rd.seenRows
          /\ \A i, j \in 1..Len(rd.printed) : i < j => rd.printed[i].id < rd.printed[j].id
    /\ rd.outcome = "no-records" => rd.seenRows = {} /\ rd.printed = <<>>

C8_EmptyStoreListsEmpty ==
    (rpc = "r_returned" /\ ~rd.fault /\ rd.seenRows = {}) => rd.outcome = "no-records"

\* C10: between calls, and after a call that failed, no file handle and no
\* ledger connection is open; a handle is open only while _hash_file reads.
C10_ResourcesScopedPerCall ==
    /\ pc \in {"idle", "crashed"} => handles = {} /\ conn # "open"
    /\ rpc \in {"r_idle", "r_returned"} => rconn # "open"
    /\ handles # {} => pc = "hf_read" /\ handles = {hf.filepath}
    /\ conn = "open" => pc \in {"st_create", "st_insert", "st_commit", "st_except",
                                "st_finally"}

C10_Witness ==
    /\ pc = "idle" /\ ret = S_FailedToHash
    /\ opened = {PathJoin(Top, <<121>>)} /\ handles = {}
    /\ st.failed /\ st.at = "st_insert" /\ conn = "closed"
    /\ rpc = "r_returned" /\ rd.outcome = "store-error" /\ rconn = "closed"

====
